---- MODULE Spec2Model ----
(***************************************************************************)
(* Evidence builder of the prover's proof submitter                        *)
(* (prover/proof_submitter/evidence/builder.go).                           *)
(*                                                                         *)
(* A Builder holds a graffiti set once by NewBuilder.  ForSubmission and   *)
(* ForContest are modelled as calls that advance one collaborator call at  *)
(* a time, so that several calls on the same Builder can interleave.  The  *)
(* answers of the collaborators (L2 block fetch, anchor validator, degree  *)
(* mapping, storage-root lookup, L1 block lookup) are the environment of   *)
(* a call and are fixed when the call starts.                              *)
(*                                                                         *)
(* A Go error is modelled as its chain of messages, outermost first: the   *)
(* nil error is <<>>, fmt.Errorf("ctx: %w", err) is <<"ctx">> \o err.  A   *)
(* Go pointer result is a sequence of length 0 (nil) or 1.                 *)
(***************************************************************************)
EXTENDS Integers, Sequences, FiniteSets, TLC

VARIABLES builder, pc, args, env, trace, evidence, ret

vars == <<builder, pc, args, env, trace, evidence, ret>>

----------------------------------------------------------------------------
(* Bounds of the model. *)

\* Calls that may be in flight on the one Builder at the same time.
MaxCalls == 2
\* Longest raw proof handed to ForSubmission.
MaxProofLen == 2
\* Most transactions in a fetched L2 block.
MaxTxs == 2

----------------------------------------------------------------------------
(* Program constants. *)

\* encoding.TierSgxAndPseZkevmID, the tier ForSubmission compares against.
TierSgxAndPseZkevmID == 300
\* Length of the Builder's graffiti field, [32]byte.
GraffitiLen == 32

----------------------------------------------------------------------------
(* Input domains. *)

Calls == 1 .. MaxCalls

\* Tier is a uint16: optimistic, SGX, SGX + PSE zkEVM.
Tiers == {100, 200, TierSgxAndPseZkevmID}

\* Proof bytes: a zero byte and two non-zero bytes.
ProofBytes == {0, 170}

\* Nested on the length bound: TLC cannot enumerate Seq(S).
RECURSIVE SeqsUpTo(_, _)
SeqsUpTo(S, n) ==
    IF n = 0 THEN {<<>>}
    ELSE LET shorter == SeqsUpTo(S, n - 1)
         IN  shorter \cup {Append(s, x) : s \in {t \in shorter : Len(t) = n - 1}, x \in S}

Proofs == SeqsUpTo(ProofBytes, MaxProofLen)

\* 32-byte digests, by name.
Hashes == {1, 2}

\* Transactions, by name.
Txs == {11, 12}

Blocks == SeqsUpTo(Txs, MaxTxs)

\* Circuit indexes are uint16: one below 256, one with both bytes set.
CircuitIdxs == {3, 258}

Degrees == {18, 99}

\* What a failing collaborator hands back.
CollabErr == <<"collaborator error">>

NilErr == <<>>

----------------------------------------------------------------------------
(* Values of the collaborating packages. *)

\* types.Header: the fields the builder reads.
Headers == [ParentHash : {1}, Number : {42}]

\* header.Hash(): a digest of the header's fields, injective on Headers and
\* outside Hashes, so that an evidence field taken from the header instead
\* of the options bundle is told apart.
Hash(header) == 1000 * header.ParentHash + header.Number

\* proofProducer.ProofRequestOptions: the four digests to embed.  One bundle
\* agrees with the header, the other one does not.
OptsFor(header) ==
    { [MetaHash |-> 1, ParentHash |-> header.ParentHash,
       BlockHash |-> Hash(header), SignalRoot |-> 2],
      [MetaHash |-> 2, ParentHash |-> 2, BlockHash |-> 1, SignalRoot |-> 1] }

\* proofProducer.ProofWithHeader.
ProofsWithHeader ==
    UNION { [BlockID : {header.Number}, Header : {header}, Opts : OptsFor(header),
             Tier : Tiers, Proof : Proofs, Degree : Degrees] : header \in Headers }

\* The answers of ForSubmission's collaborators: the L2 block fetched by
\* hash (or an error), the transactions the anchor validator accepts, the
\* transactions whose receipt it accepts, and what DegreeToCircuitsIdx
\* returns for the call's degree.
BlockAnswers ==
    {[err |-> CollabErr, txs |-> <<>>]} \cup {[err |-> NilErr, txs |-> b] : b \in Blocks}

CircuitAnswers ==
    {[err |-> CollabErr, idx |-> 0]} \cup {[err |-> NilErr, idx |-> i] : i \in CircuitIdxs}

SubmissionEnvs ==
    [block : BlockAnswers, anchorValid : SUBSET Txs, receiptValid : SUBSET Txs,
     circuits : CircuitAnswers]

\* bindings.TaikoL1ClientTransitionProved: the fields the builder reads.
Events == [BlockId : {42}, ParentHash : Hashes, Tier : Tiers]

ContestInputs == [Header : Headers, L2SignalService : {7}, Event : Events]

\* The answers of ForContest's collaborators.
RootAnswers ==
    {[err |-> CollabErr, root |-> 0]} \cup {[err |-> NilErr, root |-> h] : h \in Hashes}

BlockInfoAnswers ==
    {[err |-> CollabErr, MetaHash |-> 0]} \cup {[err |-> NilErr, MetaHash |-> h] : h \in Hashes}

ContestEnvs == [storageRoot : RootAnswers, blockInfo : BlockInfoAnswers]

\* Graffiti strings handed to NewBuilder, as bytes.
GraffitiStrings == {<<>>, <<116, 107>>}

----------------------------------------------------------------------------
(* Pure helpers. *)

\* rpc.StringToBytes32: the string's bytes copied into a zeroed [32]byte.
StringToBytes32(str) ==
    [i \in 1 .. GraffitiLen |-> IF i <= Len(str) THEN str[i] ELSE 0]

\* The zero value of [32]byte.
ZeroBytes32 == [i \in 1 .. GraffitiLen |-> 0]

\* NewBuilder: the Builder's only state of its own is the graffiti.
NewBuilder(str) == [graffiti |-> StringToBytes32(str)]

\* A slip of uint16ToBytes: the two bytes in little-endian order.
uint16ToBytesLittleEndian(i) == <<i % 256, (i \div 256) % 256>>

\* uint16ToBytes: make([]byte, 2); binary.BigEndian.PutUint16(b, i), which
\* stores byte(i >> 8) and then byte(i).
uint16ToBytes(i) == <<(i \div 256) % 256, i % 256>>

\* fmt.Errorf("<msg>: %w", err).
Wrap(msg, err) == <<msg>> \o err

\* The (*BlockEvidence, error) pair of a return statement.
Result(ev, err) == [evidence |-> ev, err |-> err]

NoResult == Result(<<>>, NilErr)

\* A slip of the evidence literal: parent and block hash taken from the
\* header of the proof instead of the options bundle.
SubmissionEvidenceFromHeader(b, proofWithHeader) ==
    [MetaHash   |-> proofWithHeader.Opts.MetaHash,
     ParentHash |-> proofWithHeader.Header.ParentHash,
     BlockHash  |-> Hash(proofWithHeader.Header),
     SignalRoot |-> proofWithHeader.Opts.SignalRoot,
     Graffiti   |-> b.graffiti,
     Tier       |-> proofWithHeader.Tier,
     Proof      |-> proofWithHeader.Proof]

\* The evidence literal of ForSubmission.
SubmissionEvidence(b, proofWithHeader) ==
    [MetaHash   |-> proofWithHeader.Opts.MetaHash,
     ParentHash |-> proofWithHeader.Opts.ParentHash,
     BlockHash  |-> proofWithHeader.Opts.BlockHash,
     SignalRoot |-> proofWithHeader.Opts.SignalRoot,
     Graffiti   |-> b.graffiti,
     Tier       |-> proofWithHeader.Tier,
     Proof      |-> proofWithHeader.Proof]

\* A slip of the tail of ForSubmission: the circuits index DegreeToCircuitsIdx
\* returns beside its error is used and the error dropped.
EncodeProofWithFallback(ev, proofWithHeader, circuits) ==
    IF proofWithHeader.Tier = TierSgxAndPseZkevmID
    THEN Result(<<[ev EXCEPT !.Proof = uint16ToBytes(circuits.idx) \o ev.Proof]>>, NilErr)
    ELSE Result(<<ev>>, NilErr)

\* A slip of the tail of ForSubmission: `return evidence, err`.
EncodeProofEvidenceWithError(ev, proofWithHeader, circuits) ==
    IF proofWithHeader.Tier = TierSgxAndPseZkevmID
    THEN IF circuits.err # NilErr
         THEN Result(<<ev>>, circuits.err)
         ELSE Result(<<[ev EXCEPT !.Proof = uint16ToBytes(circuits.idx) \o ev.Proof]>>, NilErr)
    ELSE Result(<<ev>>, NilErr)

\* The tail of ForSubmission: for the dual tier the circuits index, as two
\* bytes, goes in front of the proof, and a failing DegreeToCircuitsIdx ends
\* the call with its error as it is; `circuits` is that function's answer.
EncodeProof(ev, proofWithHeader, circuits) ==
    IF proofWithHeader.Tier = TierSgxAndPseZkevmID
    THEN IF circuits.err # NilErr
         THEN Result(<<>>, circuits.err)
         ELSE Result(<<[ev EXCEPT !.Proof = uint16ToBytes(circuits.idx) \o ev.Proof]>>, NilErr)
    ELSE Result(<<ev>>, NilErr)

\* A slip of the contest literal: the Builder's graffiti is filled in as it
\* is for a submission.
ContestEvidenceWithGraffiti(b, header, event, signalRoot, blockInfo) ==
    [MetaHash   |-> blockInfo.MetaHash,
     ParentHash |-> event.ParentHash,
     BlockHash  |-> Hash(header),
     SignalRoot |-> signalRoot,
     Graffiti   |-> b.graffiti,
     Tier       |-> event.Tier,
     Proof      |-> <<>>]

\* The evidence literal of ForContest: Graffiti is not set, so it keeps the
\* zero value.
ContestEvidence(b, header, event, signalRoot, blockInfo) ==
    [MetaHash   |-> blockInfo.MetaHash,
     ParentHash |-> event.ParentHash,
     BlockHash  |-> Hash(header),
     SignalRoot |-> signalRoot,
     Graffiti   |-> ZeroBytes32,
     Tier       |-> event.Tier,
     Proof      |-> <<>>]

\* One collaborator invocation, as the trace of a call records it.
Invocation(op, arg) == [op |-> op, arg |-> arg]

----------------------------------------------------------------------------
(* State.                                                                  *)
(*   builder   the Builder b, shared by every call                         *)
(*   pc        where each call stands                                      *)
(*   args      the arguments of each call                                  *)
(*   env       the collaborators' answers to each call                     *)
(*   trace     the collaborator invocations each call has made, in order   *)
(*   evidence  each call's local variable `evidence`                       *)
(*   ret       what each call has returned                                 *)

NoArgs == [kind |-> "none"]

Init ==
    /\ builder \in {NewBuilder(str) : str \in GraffitiStrings}
    /\ pc = [c \in Calls |-> "idle"]
    /\ args = [c \in Calls |-> NoArgs]
    /\ env = [c \in Calls |-> NoArgs]
    /\ trace = [c \in Calls |-> <<>>]
    /\ evidence = [c \in Calls |-> <<>>]
    /\ ret = [c \in Calls |-> NoResult]

\* A return statement of call c.
Returns(c, result) ==
    /\ pc' = [pc EXCEPT ![c] = "done"]
    /\ ret' = [ret EXCEPT ![c] = result]

\* Call c goes on to its next step.
Goto(c, label) ==
    /\ pc' = [pc EXCEPT ![c] = label]
    /\ UNCHANGED ret

Invoke(c, op, arg) == trace' = [trace EXCEPT ![c] = Append(@, Invocation(op, arg))]

\* ForSubmission is entered with one of `inputs`, the collaborators being
\* about to answer as one of `envs` says.
CallForSubmission(c, inputs, envs) ==
    /\ pc[c] = "idle"
    /\ \E proofWithHeader \in inputs, e \in envs :
          /\ args' = [args EXCEPT ![c] = [kind |-> "ForSubmission", proofWithHeader |-> proofWithHeader]]
          /\ env' = [env EXCEPT ![c] = e]
    /\ Goto(c, "BlockByHash")
    /\ UNCHANGED <<builder, trace, evidence>>

\* A slip of the block fetch: the transaction count is not checked.
BlockByHashUnchecked(c) ==
    /\ pc[c] = "BlockByHash"
    /\ Invoke(c, "BlockByHash", Hash(args[c].proofWithHeader.Header))
    /\ LET block == env[c].block IN
         IF block.err # NilErr
         THEN Returns(c, Result(<<>>, Wrap("failed to get L2 block with given hash", block.err)))
         ELSE Goto(c, "ValidateAnchorTx")
    /\ UNCHANGED <<builder, args, env, evidence>>

\* b.rpc.L2.BlockByHash(ctx, header.Hash()) and the check of the block's
\* transaction count.
BlockByHash(c) ==
    /\ pc[c] = "BlockByHash"
    /\ Invoke(c, "BlockByHash", Hash(args[c].proofWithHeader.Header))
    /\ LET block == env[c].block IN
         IF block.err # NilErr
         THEN Returns(c, Result(<<>>, Wrap("failed to get L2 block with given hash", block.err)))
         ELSE IF Len(block.txs) = 0
              THEN Returns(c, Result(<<>>, <<"invalid block without anchor transaction">>))
              ELSE Goto(c, "ValidateAnchorTx")
    /\ UNCHANGED <<builder, args, env, evidence>>

\* A slip of the anchor check: a failing check is tried once more.
ValidateAnchorTxRetrying(c) ==
    /\ pc[c] = "ValidateAnchorTx"
    /\ LET anchorTx == env[c].block.txs[1] IN
         /\ Invoke(c, "ValidateAnchorTx", anchorTx)
         /\ IF anchorTx \notin env[c].anchorValid
            THEN IF Len(trace[c]) < 2
                 THEN Goto(c, "ValidateAnchorTx")
                 ELSE Returns(c, Result(<<>>, Wrap("invalid anchor transaction", CollabErr)))
            ELSE Goto(c, "GetAndValidateAnchorTxReceipt")
    /\ UNCHANGED <<builder, args, env, evidence>>

\* anchorTx := block.Transactions()[0]; b.anchorTxValidator.ValidateAnchorTx.
ValidateAnchorTx(c) ==
    /\ pc[c] = "ValidateAnchorTx"
    /\ LET anchorTx == env[c].block.txs[1] IN
         /\ Invoke(c, "ValidateAnchorTx", anchorTx)
         /\ IF anchorTx \notin env[c].anchorValid
            THEN Returns(c, Result(<<>>, Wrap("invalid anchor transaction", CollabErr)))
            ELSE Goto(c, "GetAndValidateAnchorTxReceipt")
    /\ UNCHANGED <<builder, args, env, evidence>>

\* A slip of the receipt check: its error is not looked at.
GetAndValidateAnchorTxReceiptIgnored(c) ==
    /\ pc[c] = "GetAndValidateAnchorTxReceipt"
    /\ Invoke(c, "GetAndValidateAnchorTxReceipt", env[c].block.txs[1])
    /\ Goto(c, "evidence")
    /\ UNCHANGED <<builder, args, env, evidence>>

\* b.anchorTxValidator.GetAndValidateAnchorTxReceipt(ctx, anchorTx).
GetAndValidateAnchorTxReceipt(c) ==
    /\ pc[c] = "GetAndValidateAnchorTxReceipt"
    /\ LET anchorTx == env[c].block.txs[1] IN
         /\ Invoke(c, "GetAndValidateAnchorTxReceipt", anchorTx)
         /\ IF anchorTx \notin env[c].receiptValid
            THEN Returns(c, Result(<<>>, Wrap("failed to fetch anchor transaction receipt", CollabErr)))
            ELSE Goto(c, "evidence")
    /\ UNCHANGED <<builder, args, env, evidence>>

\* evidence := &encoding.BlockEvidence{...}: reads the Builder's graffiti.
AssembleEvidence(c) ==
    /\ pc[c] = "evidence"
    /\ evidence' = [evidence EXCEPT ![c] = <<SubmissionEvidence(builder, args[c].proofWithHeader)>>]
    /\ Goto(c, "encode")
    /\ UNCHANGED <<builder, args, env, trace>>

\* The tier check, DegreeToCircuitsIdx for the dual tier, and the return.
DegreeToCircuitsIdx(c) ==
    /\ pc[c] = "encode"
    /\ LET proofWithHeader == args[c].proofWithHeader IN
         /\ IF proofWithHeader.Tier = TierSgxAndPseZkevmID
            THEN Invoke(c, "DegreeToCircuitsIdx", proofWithHeader.Degree)
            ELSE UNCHANGED trace
         /\ Returns(c, EncodeProof(evidence[c][1], proofWithHeader, env[c].circuits))
    /\ UNCHANGED <<builder, args, env, evidence>>

\* ForContest is entered.
CallForContest(c, inputs, envs) ==
    /\ pc[c] = "idle"
    /\ \E in \in inputs, e \in envs :
          /\ args' = [args EXCEPT ![c] = [kind |-> "ForContest", header |-> in.Header,
                                          l2SignalService |-> in.L2SignalService,
                                          event |-> in.Event]]
          /\ env' = [env EXCEPT ![c] = e]
    /\ Goto(c, "GetStorageRoot")
    /\ UNCHANGED <<builder, trace, evidence>>

\* b.rpc.GetStorageRoot(ctx, b.rpc.L2GethClient, l2SignalService, event.BlockId).
GetStorageRoot(c) ==
    /\ pc[c] = "GetStorageRoot"
    /\ Invoke(c, "GetStorageRoot", args[c].event.BlockId)
    /\ LET answer == env[c].storageRoot IN
         IF answer.err # NilErr
         THEN Returns(c, Result(<<>>, Wrap("failed to get L2 signal service storage root", answer.err)))
         ELSE Goto(c, "GetBlock")
    /\ UNCHANGED <<builder, args, env, evidence>>

\* A slip of ForContest: the Builder's graffiti is cleared so that the
\* contest evidence carries none.
GetBlockClearingGraffiti(c) ==
    /\ pc[c] = "GetBlock"
    /\ Invoke(c, "GetBlock", args[c].event.BlockId)
    /\ builder' = [builder EXCEPT !.graffiti = ZeroBytes32]
    /\ LET blockInfo == env[c].blockInfo IN
         IF blockInfo.err # NilErr
         THEN Returns(c, Result(<<>>, blockInfo.err))
         ELSE Returns(c, Result(<<ContestEvidence(builder', args[c].header, args[c].event,
                                                  env[c].storageRoot.root, blockInfo)>>, NilErr))
    /\ UNCHANGED <<args, env, evidence>>

\* b.rpc.TaikoL1.GetBlock(..., event.BlockId.Uint64()) and the return of the
\* contest evidence.
GetBlock(c) ==
    /\ pc[c] = "GetBlock"
    /\ Invoke(c, "GetBlock", args[c].event.BlockId)
    /\ LET blockInfo == env[c].blockInfo IN
         IF blockInfo.err # NilErr
         THEN Returns(c, Result(<<>>, blockInfo.err))
         ELSE Returns(c, Result(<<ContestEvidence(builder, args[c].header, args[c].event,
                                                  env[c].storageRoot.root, blockInfo)>>, NilErr))
    /\ UNCHANGED <<builder, args, env, evidence>>

\* The caller has taken the result: the call's frame is gone and another
\* call may be made on the same Builder.
Return(c) ==
    /\ pc[c] = "done"
    /\ pc' = [pc EXCEPT ![c] = "idle"]
    /\ args' = [args EXCEPT ![c] = NoArgs]
    /\ env' = [env EXCEPT ![c] = NoArgs]
    /\ trace' = [trace EXCEPT ![c] = <<>>]
    /\ evidence' = [evidence EXCEPT ![c] = <<>>]
    /\ ret' = [ret EXCEPT ![c] = NoResult]
    /\ UNCHANGED builder

----------------------------------------------------------------------------
(* Spec: one call at a time on the Builder, over the full input domains. *)

Sequential == {1}

Next ==
    \/ \E c \in Sequential : CallForSubmission(c, ProofsWithHeader, SubmissionEnvs)
    \/ \E c \in Sequential : BlockByHash(c)
    \/ \E c \in Sequential : ValidateAnchorTx(c)
    \/ \E c \in Sequential : GetAndValidateAnchorTxReceipt(c)
    \/ \E c \in Sequential : AssembleEvidence(c)
    \/ \E c \in Sequential : DegreeToCircuitsIdx(c)
    \/ \E c \in Sequential : CallForContest(c, ContestInputs, ContestEnvs)
    \/ \E c \in Sequential : GetStorageRoot(c)
    \/ \E c \in Sequential : GetBlock(c)
    \/ \E c \in Sequential : Return(c)

Spec == Init /\ [][Next]_vars

----------------------------------------------------------------------------
(* SpecConcurrent: up to MaxCalls calls in flight on the one Builder, their *)
(* steps interleaved, each over one input per outcome of the call.          *)

\* One submission per tier class.
ConcurrentSubmissions ==
    {p \in ProofsWithHeader :
        /\ p.Tier \in {200, TierSgxAndPseZkevmID}
        /\ p.Proof = <<170>>
        /\ p.Degree = 18
        /\ p.Opts.MetaHash = 2}

\* One environment per place where ForSubmission can end.
ConcurrentSubmissionEnvs ==
    {e \in SubmissionEnvs :
        \/ e.block.err # NilErr /\ e.anchorValid = {} /\ e.receiptValid = {} /\ e.circuits.idx = 0
        \/ /\ e.block.err = NilErr
           /\ e.block.txs = <<>>
           /\ e.anchorValid = Txs /\ e.receiptValid = Txs /\ e.circuits.idx = 0
        \/ /\ e.block.txs = <<11>>
           /\ e.circuits.idx \in {0, 258}
           /\ \/ e.anchorValid = {} /\ e.receiptValid = Txs /\ e.circuits.idx = 0
              \/ e.anchorValid = Txs /\ e.receiptValid = {} /\ e.circuits.idx = 0
              \/ e.anchorValid = Txs /\ e.receiptValid = Txs}

ConcurrentContests ==
    {call \in ContestInputs : call.Event.Tier = 200 /\ call.Event.ParentHash = 2}

ConcurrentContestEnvs ==
    {e \in ContestEnvs : e.storageRoot.root \in {0, 1} /\ e.blockInfo.MetaHash \in {0, 2}}

NextConcurrent ==
    \/ \E c \in Calls : CallForSubmission(c, ConcurrentSubmissions, ConcurrentSubmissionEnvs)
    \/ \E c \in Calls : BlockByHash(c)
    \/ \E c \in Calls : ValidateAnchorTx(c)
    \/ \E c \in Calls : GetAndValidateAnchorTxReceipt(c)
    \/ \E c \in Calls : AssembleEvidence(c)
    \/ \E c \in Calls : DegreeToCircuitsIdx(c)
    \/ \E c \in Calls : CallForContest(c, ConcurrentContests, ConcurrentContestEnvs)
    \/ \E c \in Calls : GetStorageRoot(c)
    \/ \E c \in Calls : GetBlock(c)
    \/ \E c \in Calls : Return(c)

SpecConcurrent == Init /\ [][NextConcurrent]_vars

----------------------------------------------------------------------------
(* The two methods as functions of the Builder, the arguments and the      *)
(* collaborators' answers: what a call returns when it runs alone.         *)

ForSubmission(b, proofWithHeader, e) ==
    LET block == e.block IN
    IF block.err # NilErr
    THEN Result(<<>>, Wrap("failed to get L2 block with given hash", block.err))
    ELSE IF Len(block.txs) = 0
    THEN Result(<<>>, <<"invalid block without anchor transaction">>)
    ELSE IF block.txs[1] \notin e.anchorValid
    THEN Result(<<>>, Wrap("invalid anchor transaction", CollabErr))
    ELSE IF block.txs[1] \notin e.receiptValid
    THEN Result(<<>>, Wrap("failed to fetch anchor transaction receipt", CollabErr))
    ELSE EncodeProof(SubmissionEvidence(b, proofWithHeader), proofWithHeader, e.circuits)

ForContest(b, header, event, e) ==
    IF e.storageRoot.err # NilErr
    THEN Result(<<>>, Wrap("failed to get L2 signal service storage root", e.storageRoot.err))
    ELSE IF e.blockInfo.err # NilErr
    THEN Result(<<>>, e.blockInfo.err)
    ELSE Result(<<ContestEvidence(b, header, event, e.storageRoot.root, e.blockInfo)>>, NilErr)

----------------------------------------------------------------------------
(* Properties. *)

Done(c) == pc[c] = "done"

Submission(c) == args[c].kind = "ForSubmission"

Contest(c) == args[c].kind = "ForContest"

Succeeded(c) == ret[c].evidence # <<>> /\ ret[c].err = NilErr

\* The names of the collaborators call c has invoked, in order.
Ops(c) == [i \in 1 .. Len(trace[c]) |-> trace[c][i].op]

Invoked(c, op) == \E i \in 1 .. Len(trace[c]) : trace[c][i].op = op

\* The block is fetched, holds a transaction, and the validator accepts the
\* first transaction and its receipt.
AnchorChecksPass(e) ==
    /\ e.block.err = NilErr
    /\ Len(e.block.txs) > 0
    /\ e.block.txs[1] \in e.anchorValid
    /\ e.block.txs[1] \in e.receiptValid

IsDualTier(c) == args[c].proofWithHeader.Tier = TierSgxAndPseZkevmID

\* The uint16 two bytes stand for, most significant byte first.
BigEndian16(bytes) == bytes[1] * 256 + bytes[2]

\* C1: a successful ForSubmission of the dual tier returns as Proof the
\* circuits index of DegreeToCircuitsIdx as two big-endian bytes followed by
\* the raw proof; of any other tier it returns the raw proof itself, never
\* asks for the circuits index and does not fail on it.
ProofEncoding ==
    \A c \in Calls :
        Submission(c) =>
            LET raw == args[c].proofWithHeader.Proof IN
            /\ (Done(c) /\ Succeeded(c) /\ IsDualTier(c)) =>
                  LET out == ret[c].evidence[1].Proof IN
                  /\ Len(out) = 2 + Len(raw)
                  /\ out[1] \in 0 .. 255
                  /\ out[2] \in 0 .. 255
                  /\ BigEndian16(out) = env[c].circuits.idx
                  /\ SubSeq(out, 3, Len(out)) = raw
            /\ (Done(c) /\ Succeeded(c) /\ ~IsDualTier(c)) =>
                  ret[c].evidence[1].Proof = raw
            /\ ~IsDualTier(c) =>
                  /\ ~Invoked(c, "DegreeToCircuitsIdx")
                  /\ (Done(c) /\ AnchorChecksPass(env[c])) => Succeeded(c)

\* C1's case: a two-byte proof of the dual tier came back behind the index
\* 258, whose two bytes differ.
ProofEncodingWitness ==
    \E c \in Calls :
        /\ Done(c) /\ Submission(c) /\ Succeeded(c) /\ IsDualTier(c)
        /\ env[c].circuits.idx = 258
        /\ args[c].proofWithHeader.Proof = <<0, 170>>
        /\ ret[c].evidence[1].Proof = <<1, 2, 0, 170>>

HashesAndTierFromInput(c) ==
    LET ev == ret[c].evidence[1]
        proofWithHeader == args[c].proofWithHeader
    IN  /\ ev.MetaHash = proofWithHeader.Opts.MetaHash
        /\ ev.ParentHash = proofWithHeader.Opts.ParentHash
        /\ ev.BlockHash = proofWithHeader.Opts.BlockHash
        /\ ev.SignalRoot = proofWithHeader.Opts.SignalRoot
        /\ ev.Tier = proofWithHeader.Tier

\* C2 as stated: whenever the block fetch and both anchor checks succeed,
\* ForSubmission returns evidence, with the four hashes of the options bundle
\* and the input tier, for every tier.
SubmissionAlwaysReturnsInputHashes ==
    \A c \in Calls :
        (Done(c) /\ Submission(c) /\ AnchorChecksPass(env[c])) =>
            Succeeded(c) /\ HashesAndTierFromInput(c)

\* C2 amended: whenever the block fetch and both anchor checks succeed and,
\* for the dual tier, DegreeToCircuitsIdx succeeds too, ForSubmission returns
\* evidence; and any evidence it returns carries the four hashes of the
\* options bundle and the input tier.
SubmissionReturnsInputHashes ==
    \A c \in Calls :
        (Done(c) /\ Submission(c)) =>
            /\ (AnchorChecksPass(env[c]) /\ (IsDualTier(c) => env[c].circuits.err = NilErr))
                  => Succeeded(c)
            /\ Succeeded(c) => HashesAndTierFromInput(c)

\* C2's case: evidence came back for options that disagree with the header.
SubmissionReturnsInputHashesWitness ==
    \E c \in Calls :
        /\ Done(c) /\ Submission(c) /\ Succeeded(c)
        /\ args[c].proofWithHeader.Opts.BlockHash # Hash(args[c].proofWithHeader.Header)
        /\ args[c].proofWithHeader.Opts.ParentHash # args[c].proofWithHeader.Header.ParentHash
        /\ ret[c].evidence[1].BlockHash = 1

FetchedEmptyBlock(c) == env[c].block.err = NilErr /\ env[c].block.txs = <<>>

\* C3: when the fetched block has no transaction, ForSubmission fails with
\* the malformed-block error and no evidence, having invoked neither anchor
\* check nor the degree mapping.
EmptyBlockIsMalformed ==
    \A c \in Calls :
        (Submission(c) /\ FetchedEmptyBlock(c)) =>
            /\ pc[c] \in {"BlockByHash", "done"}
            /\ ~Invoked(c, "ValidateAnchorTx")
            /\ ~Invoked(c, "GetAndValidateAnchorTxReceipt")
            /\ ~Invoked(c, "DegreeToCircuitsIdx")
            /\ Done(c) =>
                  ret[c] = Result(<<>>, <<"invalid block without anchor transaction">>)

\* C3's case: the call ended on an empty block while the validator accepts
\* every transaction and the degree maps.
EmptyBlockIsMalformedWitness ==
    \E c \in Calls :
        /\ Done(c) /\ Submission(c) /\ FetchedEmptyBlock(c)
        /\ env[c].anchorValid = Txs /\ env[c].receiptValid = Txs
        /\ env[c].circuits.err = NilErr
        /\ IsDualTier(c)

\* C4: a dual-tier ForSubmission whose DegreeToCircuitsIdx fails returns an
\* error and no evidence, though the evidence was assembled; and evidence of
\* the dual tier is only ever returned with the index the mapping gave.
DegreeFailureAborts ==
    \A c \in Calls :
        (Done(c) /\ Submission(c) /\ IsDualTier(c)) =>
            /\ (Invoked(c, "DegreeToCircuitsIdx") /\ env[c].circuits.err # NilErr) =>
                  /\ evidence[c] # <<>>
                  /\ ret[c].evidence = <<>>
                  /\ ret[c].err # NilErr
            /\ ret[c].evidence # <<>> =>
                  /\ env[c].circuits.err = NilErr
                  /\ BigEndian16(ret[c].evidence[1].Proof) = env[c].circuits.idx

\* C4's case: the mapping was asked and failed after the three checks passed.
DegreeFailureAbortsWitness ==
    \E c \in Calls :
        /\ Done(c) /\ Submission(c) /\ IsDualTier(c)
        /\ AnchorChecksPass(env[c])
        /\ Len(trace[c]) = 4
        /\ env[c].circuits.err # NilErr
        /\ evidence[c] # <<>>

\* C5: a successful ForContest returns exactly the MetaHash of the L1 block
\* looked up for event.BlockId, the event's ParentHash and Tier, the hash of
\* the header, the storage root looked up, an empty Proof and an all-zero
\* Graffiti.
ContestEvidenceExact ==
    \A c \in Calls :
        (Done(c) /\ Contest(c) /\ ret[c].err = NilErr) =>
            /\ ret[c].evidence =
                  << [MetaHash   |-> env[c].blockInfo.MetaHash,
                      ParentHash |-> args[c].event.ParentHash,
                      BlockHash  |-> Hash(args[c].header),
                      SignalRoot |-> env[c].storageRoot.root,
                      Tier       |-> args[c].event.Tier,
                      Proof      |-> <<>>,
                      Graffiti   |-> [i \in 1 .. 32 |-> 0]] >>
            /\ Len(ret[c].evidence[1].Proof) = 0
            /\ trace[c] = << Invocation("GetStorageRoot", args[c].event.BlockId),
                             Invocation("GetBlock", args[c].event.BlockId) >>

\* C5's case: contest evidence came back from a Builder whose graffiti is
\* not zero, root and MetaHash being different digests.
ContestEvidenceExactWitness ==
    \E c \in Calls :
        /\ Done(c) /\ Contest(c) /\ Succeeded(c)
        /\ builder.graffiti # ZeroBytes32
        /\ env[c].storageRoot.root # env[c].blockInfo.MetaHash

EvidenceFields ==
    {"MetaHash", "ParentHash", "BlockHash", "SignalRoot", "Graffiti", "Tier", "Proof"}

\* C6: a finished call has returned either an evidence record with all of
\* its fields and a nil error, or no evidence and an error; never both and
\* never neither.
ExactlyOneResult ==
    \A c \in Calls :
        Done(c) =>
            \/ /\ Len(ret[c].evidence) = 1
               /\ DOMAIN ret[c].evidence[1] = EvidenceFields
               /\ ret[c].err = NilErr
            \/ /\ ret[c].evidence = <<>>
               /\ ret[c].err # NilErr

\* C6's case: a call ended at its last failing step, the evidence record
\* being assembled already.
ExactlyOneResultWitness ==
    \E c \in Calls :
        /\ Done(c) /\ Submission(c)
        /\ evidence[c] # <<>>
        /\ ret[c].err # NilErr

\* C7 as stated: no error comes back as the collaborator handed it over;
\* each carries a context of the builder in front.
ErrorsAreWrapped ==
    \A c \in Calls :
        (Done(c) /\ ret[c].err # NilErr) =>
            /\ ret[c].err # CollabErr
            /\ Head(ret[c].err) # Head(CollabErr)

\* C8: ForSubmission returns evidence only after, in this order, the block
\* was fetched by the header's hash, held a transaction, and its first
\* transaction passed the anchor check and then the receipt check.
EvidenceOnlyAfterChecks ==
    \A c \in Calls :
        (Done(c) /\ Submission(c) /\ ret[c].evidence # <<>>) =>
            /\ Len(trace[c]) >= 3
            /\ trace[c][1] = Invocation("BlockByHash", Hash(args[c].proofWithHeader.Header))
            /\ env[c].block.err = NilErr
            /\ Len(env[c].block.txs) >= 1
            /\ trace[c][2] = Invocation("ValidateAnchorTx", env[c].block.txs[1])
            /\ env[c].block.txs[1] \in env[c].anchorValid
            /\ trace[c][3] = Invocation("GetAndValidateAnchorTxReceipt", env[c].block.txs[1])
            /\ env[c].block.txs[1] \in env[c].receiptValid

\* C8's case: evidence came back for a block of two transactions of which
\* only the first one is valid, with a valid receipt.
EvidenceOnlyAfterChecksWitness ==
    \E c \in Calls :
        /\ Done(c) /\ Submission(c) /\ Succeeded(c)
        /\ env[c].block.txs = <<11, 12>>
        /\ env[c].anchorValid = {11}
        /\ env[c].receiptValid = {11}

\* The collaborators of each method, in the order the method invokes them.
SubmissionOrder ==
    <<"BlockByHash", "ValidateAnchorTx", "GetAndValidateAnchorTxReceipt", "DegreeToCircuitsIdx">>

ContestOrder == <<"GetStorageRoot", "GetBlock">>

IsPrefix(s, t) == Len(s) <= Len(t) /\ \A i \in 1 .. Len(s) : s[i] = t[i]

\* Whether the i-th invocation of call c was answered with an error.
Failed(c, i) ==
    LET inv == trace[c][i] IN
    \/ inv.op = "BlockByHash" /\ env[c].block.err # NilErr
    \/ inv.op = "ValidateAnchorTx" /\ inv.arg \notin env[c].anchorValid
    \/ inv.op = "GetAndValidateAnchorTxReceipt" /\ inv.arg \notin env[c].receiptValid
    \/ inv.op = "DegreeToCircuitsIdx" /\ env[c].circuits.err # NilErr
    \/ inv.op = "GetStorageRoot" /\ env[c].storageRoot.err # NilErr
    \/ inv.op = "GetBlock" /\ env[c].blockInfo.err # NilErr

\* C9: a call invokes its collaborators in the method's order, each at most
\* once, and none after one of them failed: a failed invocation is the last
\* one and the call has ended with an error.
NoRetryAndShortCircuit ==
    \A c \in Calls :
        /\ Submission(c) => IsPrefix(Ops(c), SubmissionOrder)
        /\ Contest(c) => IsPrefix(Ops(c), ContestOrder)
        /\ \A i \in 1 .. Len(trace[c]) :
              Failed(c, i) =>
                  /\ i = Len(trace[c])
                  /\ Done(c)
                  /\ ret[c].evidence = <<>>
                  /\ ret[c].err # NilErr

\* C9's case: a contest ended at its failed storage-root lookup, the L1
\* block lookup being one that would have succeeded.
NoRetryAndShortCircuitWitness ==
    \E c \in Calls :
        /\ Done(c) /\ Contest(c)
        /\ Ops(c) = <<"GetStorageRoot">>
        /\ env[c].storageRoot.err # NilErr
        /\ env[c].blockInfo.err = NilErr

\* What call c returns when it runs alone on Builder bld.
Alone(bld, c) ==
    IF Submission(c)
    THEN ForSubmission(bld, args[c].proofWithHeader, env[c])
    ELSE ForContest(bld, args[c].header, args[c].event, env[c])

\* C10: no step of any call changes the Builder, and under every
\* interleaving each finished call has returned what it returns when it runs
\* alone on that Builder, so a submission's evidence carries the graffiti of
\* the Builder.
CallsAreIndependent ==
    /\ [][builder' = builder]_vars
    /\ [](\A c \in Calls :
            Done(c) =>
                /\ ret[c] = Alone(builder, c)
                /\ (Submission(c) /\ Succeeded(c)) =>
                      ret[c].evidence[1].Graffiti = builder.graffiti)

\* C10's case: a submission and a contest on a Builder with a graffiti have
\* both returned evidence, neither result being taken yet.
CallsAreIndependentWitness ==
    \E c1, c2 \in Calls :
        /\ Done(c1) /\ Submission(c1) /\ Succeeded(c1)
        /\ Done(c2) /\ Contest(c2) /\ Succeeded(c2)
        /\ builder.graffiti # ZeroBytes32
        /\ ret[c1].evidence[1].Graffiti[1] = 116

====
